---- MODULE Spec2Model ----
(***************************************************************************)
(* Model of the distributed correlation / top-K neighbour pipeline of      *)
(* WeightMat.py and of the partition helpers of util.py.                   *)
(*                                                                         *)
(* Units are MPI ranks: rank 0 is the aggregator, rank r >= 1 is the       *)
(* worker of row-batch r - 1.  Correlations are modelled by integer        *)
(* levels 0..MaxCorr; the mask value of line 129 is Sentinel.              *)
(***************************************************************************)
EXTENDS Integers, Sequences, FiniteSets, TLC

\* ------------------------------------------------------------------ bounds
\* largest total_num and batch_num given to get_batch_num_list on its own
MaxTotal == 10
MaxBatchNum == 5
\* data_num_total of the pipeline runs
NSamples == 2
\* batch_number_dim0 ranges over 1..MaxBatch
MaxBatch == 2
\* correlation levels 0..MaxCorr
MaxCorr == 1
\* one worker run on its own: samples, batches and correlation levels
MergeSamples == 4
MergeBatches == 3
MergeCorr == 1
\* the partition functions on their own: samples in all and batches
PartTotal == 5
PartBatch == 2
\* the parser on any input list: paths, and datasets per file
ParseFiles == 2
ParseDatasets == 2
SeedSamples == 3
SeedBatches == 2
SeedK == 3
SeedCorr == 2
AsmSamples == 3
AsmBatches == 2
AsmK == 2

\* the value written over the diagonal and the lower triangle (line 129)
Sentinel == -10

\* ----------------------------------------------------------------- helpers
RECURSIVE SumSeq(_)
SumSeq(s) == IF s = <<>> THEN 0 ELSE Head(s) + SumSeq(Tail(s))

Range(s) == {s[i] : i \in DOMAIN s}

MaxOf(S) == CHOOSE x \in S : \A y \in S : y <= x
MinOf(S) == CHOOSE x \in S : \A y \in S : x <= y

\* [x, ] * n
Rep(x, n) == [i \in 1..n |-> x]

\* np.arange(lo, hi)
arange(lo, hi) == [i \in 1..(IF hi > lo THEN hi - lo ELSE 0) |-> lo + i - 1]

RECURSIVE Concat(_)
Concat(ss) == IF ss = <<>> THEN <<>> ELSE Head(ss) \o Concat(Tail(ss))

\* ------------------------------------------------------- util.py functions
\* get_batch_num_list with the remainder dropped (every batch gets the floor)
get_batch_num_list_floor(total_num, batch_num) ==
    Rep(total_num \div batch_num, batch_num)

get_batch_num_list(total_num, batch_num) ==
    LET redundant_num == total_num % batch_num
        number_per_batch == total_num \div batch_num
    IN  IF redundant_num # 0
        THEN Rep(number_per_batch + 1, redundant_num)
                 \o Rep(number_per_batch, batch_num - redundant_num)
        ELSE Rep(number_per_batch, batch_num)

\* holder[l, lo:hi] = vals on one row (0-based columns lo..hi-1); numpy spreads
\* a value of length 1 over the slice and refuses any other value whose length
\* differs from the slice's (ok = FALSE: ValueError)
SetSlice(h, lo, hi, vals) ==
    IF ~h.ok \/ (Len(vals) # hi - lo /\ Len(vals) # 1)
    THEN [ok |-> FALSE, row |-> <<>>]
    ELSE [ok |-> TRUE,
          row |-> [c \in 1..Len(h.row) |->
                      IF c > lo /\ c <= hi
                      THEN vals[IF Len(vals) = 1 THEN 1 ELSE c - lo]
                      ELSE h.row[c]]]

\* the row of line l as get_batch_idx_per_list fills it
BatchIdxLine(batch_num, l) ==
    LET batch_num_per_line == batch_num - 1
        zeros == [ok |-> TRUE, row |-> Rep(0, batch_num_per_line)]
        first == IF l = 0
                 THEN SetSlice(zeros, 0, batch_num_per_line, arange(1, batch_num))
                 ELSE zeros
        last  == IF l = batch_num - 1
                 THEN SetSlice(first, 0, batch_num_per_line, arange(0, batch_num_per_line))
                 ELSE first
    IN  IF l >= 1 /\ l <= batch_num - 2
        THEN SetSlice(SetSlice(last, 0, l, arange(0, l)),
                      l, batch_num_per_line, arange(l, batch_num))
        ELSE last

\* ok = FALSE when a slice assignment raised
get_batch_idx_per_list(batch_num) ==
    LET lines == [r \in 1..batch_num |-> BatchIdxLine(batch_num, r - 1)]
    IN  IF \E r \in 1..batch_num : ~lines[r].ok
        THEN [ok |-> FALSE, holder |-> <<>>]
        ELSE [ok |-> TRUE, holder |-> [r \in 1..batch_num |-> lines[r].row]]

\* ---------------------------------------- _parse_h5_data_list (util.py 43)
\* lines is the list of the addresses of the "File:" lines of the txt file, in
\* order; files gives for every path whether h5py can open it and the datasets
\* to process in it (their per-sample shape and their number of samples)

\* first loop, lines 86-112: h5py.File(address, 'r') raises for some line
OpenFails(lines, files) == \E n \in DOMAIN lines : ~files[lines[n]].readable

\* lines 116-119: len(set(file_list)) != len(file_list)
HasDuplicates(file_list) ==
    Cardinality({file_list[n] : n \in DOMAIN file_list}) # Len(file_list)

\* the shape test against the first dataset of the dataset's own file
ShapeDiffersInFile(file_list, files) ==
    \E n \in DOMAIN file_list :
        \E k \in DOMAIN files[file_list[n]].datasets :
            files[file_list[n]].datasets[1].shape # files[file_list[n]].datasets[k].shape

\* lines 157-173: some dataset's shape[1:] differs from dict_holder["shape"],
\* the shape of the first dataset of the first file
ShapeDiffers(file_list, files) ==
    LET shape == files[file_list[1]].datasets[1].shape
    IN  \E n \in DOMAIN file_list :
            \E k \in DOMAIN files[file_list[n]].datasets :
                shape # files[file_list[n]].datasets[k].shape

NoSourceDict == [ok |-> FALSE, Files |-> <<>>, shape |-> 0, Datasets |-> <<>>,
                 data_num |-> <<>>]

\* the dictionary returned, or ok = FALSE for an exception
parse_h5_data_list(lines, files) ==
    IF OpenFails(lines, files) THEN NoSourceDict
    ELSE IF HasDuplicates(lines) THEN NoSourceDict
    \* file_list[0] of an empty list, or ["Datasets"][0] of a file without
    \* datasets, at lines 157-158
    ELSE IF lines = <<>> \/ files[lines[1]].datasets = <<>> THEN NoSourceDict
    ELSE IF ShapeDiffers(lines, files) THEN NoSourceDict
    ELSE [ok |-> TRUE,
          Files |-> lines,
          shape |-> files[lines[1]].datasets[1].shape,
          Datasets |-> [n \in DOMAIN lines |->
                           [k \in DOMAIN files[lines[n]].datasets |-> k - 1]],
          data_num |-> [n \in DOMAIN lines |->
                           [k \in DOMAIN files[lines[n]].datasets |->
                               files[lines[n]].datasets[k].data_num]]]

\* holder[r, lo:hi] = x for a scalar x (a slice ends at the end of the row)
FillSlice(h, lo, hi, x) ==
    [h EXCEPT !.row = [c \in 1..Len(h.row) |-> IF c > lo /\ c <= hi THEN x ELSE h.row[c]]]

\* the local indexes numbered on from the dataset's global start
LocalIdxFromStart(global_idx_dataset_start, num) ==
    arange(global_idx_dataset_start, global_idx_dataset_start + num)

\* lines 257-258: np.arange(data_num_per_dataset[file_idx][dataset_idx])
LocalIdx(global_idx_dataset_start, num) == arange(0, num)

\* lines 251-261: the datasets of one file from dataset_idx on; holder is the
\* three rows <<file index, dataset index, local index>>
RECURSIVE DatasetLoop(_, _, _, _, _)
DatasetLoop(holder, global_idx_dataset_start, dataset_idx, dataset_num, data_num) ==
    IF dataset_idx >= dataset_num
    THEN holder
    ELSE LET global_idx_dataset_end == global_idx_dataset_start + data_num[dataset_idx + 1]
             width == Len(holder[3].row)
             from == IF global_idx_dataset_start > width
                     THEN width ELSE global_idx_dataset_start
             clamped == IF global_idx_dataset_end > width
                        THEN width ELSE global_idx_dataset_end
             next == <<holder[1],
                       FillSlice(holder[2], global_idx_dataset_start,
                                 global_idx_dataset_end, dataset_idx),
                       SetSlice(holder[3], from, clamped,
                                LocalIdx(global_idx_dataset_start,
                                         data_num[dataset_idx + 1]))>>
         IN  DatasetLoop(next, global_idx_dataset_end, dataset_idx + 1, dataset_num, data_num)

\* lines 239-264: the files from file_idx on
RECURSIVE FileLoop(_, _, _, _, _, _, _)
FileLoop(holder, global_idx_file_start, file_idx, file_num, data_num_per_file, dataset_num_per_file, data_num_per_dataset) ==
    IF file_idx >= file_num
    THEN holder
    ELSE LET global_idx_file_end == global_idx_file_start + data_num_per_file[file_idx + 1]
             filed == <<FillSlice(holder[1], global_idx_file_start, global_idx_file_end,
                                  file_idx),
                        holder[2], holder[3]>>
             next == DatasetLoop(filed, global_idx_file_start, 0,
                                 dataset_num_per_file[file_idx + 1],
                                 data_num_per_dataset[file_idx + 1])
         IN  FileLoop(next, global_idx_file_end, file_idx + 1, file_num, data_num_per_file,
                      dataset_num_per_file, data_num_per_dataset)

\* util.py 213-266; ok = FALSE when a slice assignment raised
get_global_index_map(data_num_total, file_num, data_num_per_file, dataset_num_per_file, data_num_per_dataset) ==
    LET zeros == [ok |-> TRUE, row |-> Rep(0, data_num_total)]
        holder == FileLoop(<<zeros, zeros, zeros>>, 0, 0, file_num, data_num_per_file,
                           dataset_num_per_file, data_num_per_dataset)
    IN  IF \E r \in 1..3 : ~holder[r].ok
        THEN [ok |-> FALSE, holder |-> <<>>]
        ELSE [ok |-> TRUE, holder |-> [r \in 1..3 |-> holder[r].row]]

\* np.unique: the distinct values in ascending order
RECURSIVE Unique(_)
Unique(S) ==
    IF S = {} THEN <<>>
    ELSE LET least == CHOOSE x \in S : \A y \in S : x <= y
         IN  <<least>> \o Unique(S \ {least})

\* a[lo:hi] of a one-dimensional array (0-based, clamped to the array)
Slice(a, lo, hi) ==
    LET top == IF hi > Len(a) THEN Len(a) ELSE hi
    IN  IF top > lo THEN SubSeq(a, lo + 1, top) ELSE <<>>

\* the read [min, max] without the step to the python-style end
ReadEndsClosed(positions) ==
    <<CHOOSE x \in positions : \A y \in positions : x <= y,
      CHOOSE x \in positions : \A y \in positions : y <= x>>

\* lines 369-374: [tmp_start, tmp_end] of the local positions of one dataset
ReadEnds(positions) ==
    <<CHOOSE x \in positions : \A y \in positions : x <= y,
      (CHOOSE x \in positions : \A y \in positions : y <= x) + 1>>

\* lines 326-374 for one batch [global_idx_batch_start, global_idx_batch_end):
\* the files of the batch in order and, file by file, the names of its datasets
\* and their ends
BatchEnds(index_map, global_idx_batch_start, global_idx_batch_end, file_list, source_dict) ==
    LET file_pos_holder == Slice(index_map[1], global_idx_batch_start, global_idx_batch_end)
        dataset_pos_holder == Slice(index_map[2], global_idx_batch_start, global_idx_batch_end)
        data_pos_holder == Slice(index_map[3], global_idx_batch_start, global_idx_batch_end)
        file_range == Unique({file_pos_holder[p] : p \in DOMAIN file_pos_holder})
        dataset_range(file_idx) ==
            Unique({dataset_pos_holder[p] :
                       p \in {q \in DOMAIN file_pos_holder : file_pos_holder[q] = file_idx}})
        positions(file_idx, dataset_idx) ==
            {data_pos_holder[p] :
                p \in {q \in DOMAIN file_pos_holder :
                          /\ file_pos_holder[q] = file_idx
                          /\ dataset_pos_holder[q] = dataset_idx}}
    IN  [files |-> [k \in DOMAIN file_range |-> file_list[file_range[k] + 1]],
         entries |->
             [k \in DOMAIN file_range |->
                 LET file_idx == file_range[k]
                     datasets == dataset_range(file_idx)
                 IN  [Datasets |-> [n \in DOMAIN datasets |->
                                       source_dict[file_idx + 1][datasets[n] + 1]],
                      Ends |-> [n \in DOMAIN datasets |->
                                   ReadEnds(positions(file_idx, datasets[n]))]]]]

\* util.py 275-376: one entry per batch of global_index_range_list
get_batch_ends(index_map, global_index_range_list, file_list, source_dict) ==
    [batch_idx \in DOMAIN global_index_range_list |->
        BatchEnds(index_map, global_index_range_list[batch_idx][1],
                  global_index_range_list[batch_idx][2], file_list, source_dict)]

\* ------------------------------------------------- top-K by np.argsort
IsInjective(f) == \A a, b \in DOMAIN f : f[a] = f[b] => a = b

\* np.argsort(row)[:-(K + 1):-1]: the positions (1-based here) of the K largest
\* entries, largest first.  argsort's default sort is not stable, so the order
\* among equal entries is any order: the result is a set of outcomes.
ArgTopK(row, K) ==
    LET w == IF K <= Len(row) THEN K ELSE Len(row)
    IN  {sel \in [1..w -> 1..Len(row)] :
            /\ IsInjective(sel)
            /\ \A k \in 1..(w - 1) : row[sel[k]] >= row[sel[k + 1]]
            /\ \A p \in 1..Len(row) :
                   (\A k \in 1..w : sel[k] # p) => \A k \in 1..w : row[p] <= row[sel[k]]}

\* one outcome of the row-wise argsort (axis=1) for every row of the matrix
RECURSIVE ArgTopKRows(_, _)
ArgTopKRows(rows, K) ==
    IF rows = <<>>
    THEN {<<>>}
    ELSE {<<sel>> \o rest : sel \in ArgTopK(Head(rows), K),
                            rest \in ArgTopKRows(Tail(rows), K)}

\* Graph.get_values_int / Graph.get_values_float: holder[i, j] = source[i, indexes[i, j]]
get_values(source, indexes) ==
    [i \in 1..Len(indexes) |-> [k \in 1..Len(indexes[i]) |-> source[i][indexes[i][k]]]]

\* the candidates of a merge without the previously kept columns
MergeCandidatesNewOnly(kept, inner) == inner

\* line 296 (values) and lines 277-279 (indexes): the kept columns first, then
\* the columns of the bin
MergeCandidates(kept, inner) ==
    [i \in 1..Len(kept) |-> kept[i] \o inner[i]]

VARIABLES
    \* arguments and result of a call of get_batch_num_list (util.py 185)
    call,
    \* Config.CONFIGURATIONS and the number of samples (lines 23-28)
    cfg,
    \* the Pearson correlation of every pair of samples
    corr,
    \* the statement every rank is about to execute
    pc,
    \* data_source of every rank (lines 35-48)
    data_source,
    \* the object of the bcast of line 48, once the root has sent it
    bc_data_source,
    \* line 103, per worker
    data_std_dim0,
    \* line 101, per worker
    data_mean_dim0,
    \* what the units have handed to the gather of line 172
    g_std,
    \* what the units have handed to the gather of line 173
    g_mean,
    \* lines 150, 169, 180, per unit
    std_all,
    \* lines 151, 170, 181, per unit
    mean_all,
    \* the buffer of the Bcast of line 187, once the root has sent it
    bc_std,
    \* the buffer of the Bcast of line 188, once the root has sent it
    bc_mean,
    \* val_to_keep (line 142) / row_val_to_keep (line 310), per worker
    row_val_to_keep,
    \* idx_to_keep_dim0 (line 147) / row_idx_to_keep (line 304), per worker
    row_idx_to_keep,
    \* the number of bins the loop of line 212 has passed, per worker
    bin_idx,
    \* history: the batches of the bins a worker has passed
    scanned,
    \* history: the minimum of every row before the worker's last merge
    prev_min,
    \* history: the (index, value) candidates every row has met
    seen,
    \* the open row files h5file_holder_dim0 of a worker (lines 77-80)
    handles,
    \* the files distances/distance_batch_<b>.h5
    patch,
    \* the file correlation_matrix.npz
    matrix,
    \* mean_all.npy and std_all.npy are saved (lines 183-184)
    stats_saved,
    \* the loop of line 340: next idx, rows read so far, a patch was absent
    asm,
    \* the table a call of get_batch_idx_per_list has returned (util.py 386)
    idx_table,
    \* the sample counts data_num_per_dataset[file][dataset] of the sources and
    \* the number of batches given to the partition functions
    source,
    \* the map a call of get_global_index_map has returned (util.py 213)
    index_map,
    \* the reads a call of get_batch_ends has returned (util.py 275)
    batch_ends_local,
    \* the addresses of the "File:" lines of the input list (util.py 86-93)
    txt_file,
    \* the h5 files by path: readable or not, and their datasets
    h5files,
    \* history: the ranks that have written the path distance_batch_<b>
    written_by,
    \* history: the ranks that have computed rows of batch b
    processed_by

\* arguments and results of the calls of the functions of util.py
utilv == <<idx_table, source, index_map, batch_ends_local, txt_file, h5files>>
cfgv == <<call, cfg, corr, utilv>>
commv == <<bc_data_source, g_std, g_mean, bc_std, bc_mean>>
statv == <<data_std_dim0, data_mean_dim0, std_all, mean_all>>
topkv == <<row_val_to_keep, row_idx_to_keep, bin_idx, scanned, prev_min, seen>>
filev == <<patch, matrix, stats_saved>>
ownv == <<written_by, processed_by>>

vars == <<cfgv, pc, data_source, commv, statv, topkv, handles, filev, asm, ownv>>

\* ------------------------------------------------------------ the data
Units == 0..cfg.batch_num_dim0
Workers == 1..cfg.batch_num_dim0
Samples == 0..(cfg.data_num_total - 1)

SamplePairs(n) == {p \in (0..(n - 1)) \X (0..(n - 1)) : p[1] < p[2]}

\* the Pearson correlation of samples i and j (Graph.normalization applied to
\* the inner products): symmetric, and the top level for a sample with itself
Corr(i, j) ==
    IF i < j THEN corr[<<i, j>>]
    ELSE IF j < i THEN corr[<<j, i>>]
    ELSE MaxOf({corr[p] : p \in DOMAIN corr} \cup {0})

\* the mean / standard deviation of sample g, as an opaque value
StatOf(g) == g
\* an entry of an np.empty array that nothing has written yet
Unset == -1

\* --------------------------------------------- DataSource.make_batches
NoDataSource ==
    [set |-> FALSE, data_num_total |-> 0, batch_num_list_dim0 |-> <<>>,
     batch_global_idx_range_dim0 |-> <<>>, batch_ends_local_dim1 |-> <<>>]

\* [start, end) of every batch: the running sum of the batch sizes
GlobalIdxRange(num_list) ==
    [b \in 1..Len(num_list) |->
        <<SumSeq(SubSeq(num_list, 1, b - 1)), SumSeq(SubSeq(num_list, 1, b))>>]

\* the bins of one line: the other batches of the line, in one bulk read
BinsOfLine(line) == IF line = <<>> THEN <<>> ELSE <<line>>

MakeBatches(total, batch_num_dim0) ==
    LET num_list == get_batch_num_list(total, batch_num_dim0)
        table == get_batch_idx_per_list(batch_num_dim0)
    IN  [set |-> TRUE,
         data_num_total |-> total,
         batch_num_list_dim0 |-> num_list,
         batch_global_idx_range_dim0 |-> GlobalIdxRange(num_list),
         batch_ends_local_dim1 |->
             [b \in 1..batch_num_dim0 |-> BinsOfLine(table.holder[b])]]

\* batch b (0-based) of a data source
BatchStart(ds, b) == ds.batch_global_idx_range_dim0[b + 1][1]
BatchEnd(ds, b) == ds.batch_global_idx_range_dim0[b + 1][2]
BatchNum(ds, b) == ds.batch_num_list_dim0[b + 1]

\* ------------------------------------------------------ initial states
NoCall == [total_num |-> 0, batch_num |-> 0, returned |-> FALSE, result |-> <<>>]
NoPatch == [exists |-> FALSE, written |-> FALSE, row_index |-> <<>>, row_values |-> <<>>]
NoMatrix == [saved |-> FALSE, idx_dim0 |-> <<>>, idx_dim1 |-> <<>>, values |-> <<>>]
NoBuffer == [set |-> FALSE, val |-> <<>>]
NoAsm == [idx |-> 0, idx_dim1 |-> <<>>, values |-> <<>>, absent |-> FALSE]
NoTable == [returned |-> FALSE, ok |-> FALSE, holder |-> <<>>]
NoSource == [data_num_per_dataset |-> <<>>, batch_num |-> 0]
NoBatchEnds == [returned |-> FALSE, val |-> <<>>]

\* one readable file holding n samples, one sample per dataset, all of one shape
OneFile(n) ==
    [p \in {1} |-> [readable |-> TRUE,
                    datasets |-> [k \in 1..n |-> [shape |-> 0, data_num |-> 1]]]]

\* the state of the units right after MPI start-up, for one configuration
RanksStart(c) ==
    /\ cfg = c
    /\ bc_data_source = NoDataSource
    /\ data_std_dim0 = [u \in 0..c.batch_num_dim0 |-> <<>>]
    /\ data_mean_dim0 = [u \in 0..c.batch_num_dim0 |-> <<>>]
    /\ g_std = [u \in 0..c.batch_num_dim0 |-> NoBuffer]
    /\ g_mean = [u \in 0..c.batch_num_dim0 |-> NoBuffer]
    /\ std_all = [u \in 0..c.batch_num_dim0 |-> Rep(Unset, c.data_num_total)]
    /\ mean_all = [u \in 0..c.batch_num_dim0 |-> Rep(Unset, c.data_num_total)]
    /\ bc_std = NoBuffer
    /\ bc_mean = NoBuffer
    /\ row_val_to_keep = [u \in 0..c.batch_num_dim0 |-> <<>>]
    /\ row_idx_to_keep = [u \in 0..c.batch_num_dim0 |-> <<>>]
    /\ bin_idx = [u \in 0..c.batch_num_dim0 |-> 0]
    /\ scanned = [u \in 0..c.batch_num_dim0 |-> <<>>]
    /\ prev_min = [u \in 0..c.batch_num_dim0 |-> <<>>]
    /\ seen = [u \in 0..c.batch_num_dim0 |-> <<>>]
    /\ handles = [u \in 0..c.batch_num_dim0 |-> {}]
    /\ patch = [b \in 0..(c.batch_num_dim0 - 1) |-> NoPatch]
    /\ matrix = NoMatrix
    /\ stats_saved = FALSE
    /\ asm = NoAsm
    /\ written_by = [b \in 0..(c.batch_num_dim0 - 1) |-> {}]
    /\ processed_by = [b \in 0..(c.batch_num_dim0 - 1) |-> {}]
    /\ idx_table = NoTable
    /\ index_map = NoTable
    /\ batch_ends_local = NoBatchEnds

\* the same with the input list of one file holding the samples of the
\* configuration
UnitsStart(c) ==
    /\ RanksStart(c)
    /\ txt_file = <<1>>
    /\ h5files = OneFile(c.data_num_total)

\* the configurations: one batch per worker (P = B0 + 1 units), and
\* neighbor_number at most N - 1 and at most the smallest batch, so that line
\* 139 yields neighbor_number columns for every row
Configs ==
    {c \in [data_num_total : {NSamples}, batch_num_dim0 : 1..MaxBatch,
            neighbor_number : 1..NSamples] :
        /\ c.neighbor_number <= c.data_num_total - 1
        /\ c.neighbor_number <= c.data_num_total \div c.batch_num_dim0}

Init ==
    /\ call = NoCall
    /\ source = NoSource
    /\ corr \in [SamplePairs(NSamples) -> 0..MaxCorr]
    /\ \E c \in Configs :
           /\ UnitsStart(c)
           /\ pc = [u \in 0..c.batch_num_dim0 |-> IF u = 0 THEN "StepOne" ELSE "bcast48"]
           /\ data_source = [u \in 0..c.batch_num_dim0 |-> NoDataSource]

\* ------------------------------------------------- Step One (lines 34-52)
\* rank 0 parses the sources and builds the batches; the other ranks hold None
StepOne ==
    /\ pc[0] = "StepOne"
    /\ LET source_dict == parse_h5_data_list(txt_file, h5files)
       IN  IF source_dict.ok /\ get_batch_idx_per_list(cfg.batch_num_dim0).ok
           THEN /\ data_source' = [data_source EXCEPT
                       ![0] = MakeBatches(SumSeq([n \in DOMAIN source_dict.data_num |->
                                                    SumSeq(source_dict.data_num[n])]),
                                          cfg.batch_num_dim0)]
                /\ pc' = [pc EXCEPT ![0] = "bcast48"]
           ELSE /\ pc' = [pc EXCEPT ![0] = "Failed"]
                /\ UNCHANGED data_source
    /\ UNCHANGED <<cfgv, ownv, commv, statv, topkv, handles, filev, asm>>

\* comm.bcast(obj=data_source, root=0): the root publishes, the others receive
bcast48(u) ==
    /\ pc[u] = "bcast48"
    /\ IF u = 0
       THEN /\ bc_data_source' = data_source[0]
            /\ UNCHANGED data_source
       ELSE /\ bc_data_source.set
            /\ data_source' = [data_source EXCEPT ![u] = bc_data_source]
            /\ UNCHANGED bc_data_source
    /\ pc' = [pc EXCEPT ![u] = "Barrier52"]
    /\ UNCHANGED <<cfgv, ownv, g_std, g_mean, bc_std, bc_mean, statv, topkv, handles, filev, asm>>

\* comm.Barrier(): nobody leaves before every unit has arrived
Barrier52 ==
    /\ \A u \in Units : pc[u] = "Barrier52"
    /\ pc' = [u \in Units |-> IF u = 0 THEN "gather172" ELSE "StepTwo"]
    /\ UNCHANGED <<cfgv, ownv, data_source, commv, statv, topkv, handles, filev, asm>>

\* ------------------------------------------------ Step Two (lines 58-152)
\* lines 121-129: the normalised inner products of batch b, the diagonal and
\* the lower triangle overwritten by the sentinel (local rows and columns 1..n)
DiagonalPatch(ds, b) ==
    [i \in 1..BatchNum(ds, b) |->
        [j \in 1..BatchNum(ds, b) |->
            IF j <= i THEN Sentinel
            ELSE Corr(BatchStart(ds, b) + i - 1, BatchStart(ds, b) + j - 1)]]

\* line 147: idx_pre_dim0 + batch_ends (positions are 1-based here)
GlobalIdx(idx_pre, batch_ends) ==
    [i \in 1..Len(idx_pre) |->
        [k \in 1..Len(idx_pre[i]) |-> idx_pre[i][k] - 1 + batch_ends]]

\* the (index, value) pairs of the rows of two matrices of the same shape
PairRows(idx, val) ==
    [i \in 1..Len(idx) |-> [k \in 1..Len(idx[i]) |-> <<idx[i][k], val[i][k]>>]]

DiagonalStage(w, next_pc) ==
    /\ w \in Workers
    /\ pc[w] = "StepTwo"
    /\ LET ds == data_source[w]
           b == w - 1
           inner_prod_matrix == DiagonalPatch(ds, b)
       IN  \E idx_pre_dim0 \in ArgTopKRows(inner_prod_matrix, cfg.neighbor_number) :
              LET val_to_keep == get_values(inner_prod_matrix, idx_pre_dim0)
                  idx_to_keep_dim0 == GlobalIdx(idx_pre_dim0, BatchStart(ds, b))
              IN  /\ row_val_to_keep' = [row_val_to_keep EXCEPT ![w] = val_to_keep]
                  /\ row_idx_to_keep' = [row_idx_to_keep EXCEPT ![w] = idx_to_keep_dim0]
                  /\ seen' = [seen EXCEPT ![w] = PairRows(idx_to_keep_dim0, val_to_keep)]
                  /\ data_std_dim0' = [data_std_dim0 EXCEPT
                         ![w] = [i \in 1..BatchNum(ds, b) |-> StatOf(BatchStart(ds, b) + i - 1)]]
                  /\ data_mean_dim0' = [data_mean_dim0 EXCEPT
                         ![w] = [i \in 1..BatchNum(ds, b) |-> StatOf(BatchStart(ds, b) + i - 1)]]
    /\ handles' = [handles EXCEPT ![w] = {"h5file_holder_dim0"}]
    /\ processed_by' = [processed_by EXCEPT ![w - 1] = @ \cup {w}]
    /\ pc' = [pc EXCEPT ![w] = next_pc]
    /\ UNCHANGED <<cfgv, written_by, data_source, commv, std_all, mean_all, bin_idx, scanned,
                   prev_min, filev, asm>>

StepTwo(w) == DiagonalStage(w, "gather172")

\* a gather in which the root waits for a buffer of its own as well
GatheredWithRoot(g) == \A u \in Units : g[u].set

\* comm.gather(..., root=0): every unit hands in its value; the root returns
\* once it holds the value of every unit
Gathered(g) == \A u \in Workers : g[u].set

gather172(u) ==
    /\ pc[u] = "gather172"
    /\ IF u = 0
       THEN /\ Gathered(g_std)
            /\ UNCHANGED g_std
       ELSE g_std' = [g_std EXCEPT ![u] = [set |-> TRUE, val |-> data_std_dim0[u]]]
    /\ pc' = [pc EXCEPT ![u] = "gather173"]
    /\ UNCHANGED <<cfgv, ownv, data_source, bc_data_source, g_mean, bc_std, bc_mean, statv,
                   topkv, handles, filev, asm>>

gather173(u) ==
    /\ pc[u] = "gather173"
    /\ IF u = 0
       THEN /\ Gathered(g_mean)
            /\ UNCHANGED g_mean
       ELSE g_mean' = [g_mean EXCEPT ![u] = [set |-> TRUE, val |-> data_mean_dim0[u]]]
    /\ pc' = [pc EXCEPT ![u] = "Barrier174"]
    /\ UNCHANGED <<cfgv, ownv, data_source, bc_data_source, g_std, bc_std, bc_mean, statv,
                   topkv, handles, filev, asm>>

Barrier174 ==
    /\ \A u \in Units : pc[u] = "Barrier174"
    /\ pc' = [u \in Units |-> IF u = 0 THEN "StepThree" ELSE "Bcast187"]
    /\ UNCHANGED <<cfgv, ownv, data_source, commv, statv, topkv, handles, filev, asm>>

\* --------------------------------------------- Step Three (lines 179-189)
\* np.concatenate(std_data[1:]), np.concatenate(mean_data[1:]) and the two saves
StepThree ==
    /\ pc[0] = "StepThree"
    /\ std_all' = [std_all EXCEPT
           ![0] = Concat([r \in 1..cfg.batch_num_dim0 |-> g_std[r].val])]
    /\ mean_all' = [mean_all EXCEPT
           ![0] = Concat([r \in 1..cfg.batch_num_dim0 |-> g_mean[r].val])]
    /\ stats_saved' = TRUE
    /\ pc' = [pc EXCEPT ![0] = "Bcast187"]
    /\ UNCHANGED <<cfgv, ownv, data_source, commv, data_std_dim0, data_mean_dim0, topkv,
                   handles, patch, matrix, asm>>

Bcast187(u) ==
    /\ pc[u] = "Bcast187"
    /\ IF u = 0
       THEN /\ bc_std' = [set |-> TRUE, val |-> std_all[0]]
            /\ UNCHANGED std_all
       ELSE /\ bc_std.set
            /\ std_all' = [std_all EXCEPT ![u] = bc_std.val]
            /\ UNCHANGED bc_std
    /\ pc' = [pc EXCEPT ![u] = "Bcast188"]
    /\ UNCHANGED <<cfgv, ownv, data_source, bc_data_source, g_std, g_mean, bc_mean,
                   data_std_dim0, data_mean_dim0, mean_all, topkv, handles, filev, asm>>

Bcast188(u) ==
    /\ pc[u] = "Bcast188"
    /\ IF u = 0
       THEN /\ bc_mean' = [set |-> TRUE, val |-> mean_all[0]]
            /\ UNCHANGED mean_all
       ELSE /\ bc_mean.set
            /\ mean_all' = [mean_all EXCEPT ![u] = bc_mean.val]
            /\ UNCHANGED bc_mean
    /\ pc' = [pc EXCEPT ![u] = "Barrier189"]
    /\ UNCHANGED <<cfgv, ownv, data_source, bc_data_source, g_std, g_mean, bc_std,
                   data_std_dim0, data_mean_dim0, std_all, topkv, handles, filev, asm>>

\* the barrier of line 189 letting the workers go as soon as they arrive
Barrier189Arrived == \E u \in Workers : pc[u] = "Barrier189"

Barrier189Guard == \A u \in Units : pc[u] = "Barrier189"

Barrier189 ==
    /\ Barrier189Guard
    /\ pc' = [u \in Units |->
                 IF pc[u] # "Barrier189" THEN pc[u]
                 ELSE IF u = 0 THEN "Barrier327" ELSE "StepFour"]
    /\ UNCHANGED <<cfgv, ownv, data_source, commv, statv, topkv, handles, filev, asm>>

\* ---------------------------------------------- Step Four (lines 194-325)
\* WeightMat.py reads names in this step that the worker branch never binds
\* (batch_idx_on_dim0 at line 220, row_idx_to_keep at line 279, row_val_to_keep
\* at line 296): a run of the script as written ends there with a NameError,
\* which is the action Fail below.  The actions of this step are the statements
\* with batch_idx_on_dim0 read as corresponding_idx_on_dim0 (line 217) and
\* row_val_to_keep / row_idx_to_keep as the seed of Step Two (lines 143-147).

\* the columns numbered from 0 within each batch, without the batch's start
ColIdxLocal(ds, batch_idx_on_dim0) ==
    Concat([k \in 1..Len(batch_idx_on_dim0) |->
               arange(0, BatchNum(ds, batch_idx_on_dim0[k]))])

\* lines 239-249: the global indexes of the columns of a bin, batch after batch
ColIdx(ds, batch_idx_on_dim0) ==
    Concat([k \in 1..Len(batch_idx_on_dim0) |->
               arange(BatchStart(ds, batch_idx_on_dim0[k]),
                      BatchEnd(ds, batch_idx_on_dim0[k]))])

\* lines 285-293: the normalised inner products of the rows of batch b with the
\* columns col_idx
CrossPatch(ds, b, col_idx) ==
    [i \in 1..BatchNum(ds, b) |->
        [c \in 1..Len(col_idx) |-> Corr(BatchStart(ds, b) + i - 1, col_idx[c])]]

RowMin(rows) == [i \in 1..Len(rows) |-> MinOf(Range(rows[i]))]

\* the samples of the batches of a bin, in ascending order of global index
RECURSIVE SamplesOfBin(_, _)
SamplesOfBin(ds, batches) ==
    IF batches = <<>>
    THEN <<>>
    ELSE [k \in 1..BatchNum(ds, Head(batches)) |-> BatchStart(ds, Head(batches)) + k - 1]
             \o SamplesOfBin(ds, Tail(batches))

\* the candidates a row of batch b has met in a bin: (sample, correlation)
CandidatesOfBin(ds, b, i, batches) ==
    LET gs == SamplesOfBin(ds, batches)
    IN  [c \in 1..Len(gs) |-> <<gs[c], Corr(BatchStart(ds, b) + i - 1, gs[c])>>]

\* lines 276-311 on the kept rows (kept_idx, kept_val) of batch b and the
\* columns col_idx, for one outcome row_idx_pre of the argsort
MergeResult(kept_idx, kept_val, inner, col_idx, row_idx_pre) ==
    LET aux_dim1_index ==
            MergeCandidates(kept_idx, [i \in 1..Len(kept_idx) |-> col_idx])
        inner_prod_matrix == MergeCandidates(kept_val, inner)
    IN  [idx |-> get_values(aux_dim1_index, row_idx_pre),
         val |-> get_values(inner_prod_matrix, row_idx_pre)]

MergeOutcomes(kept_val, inner, K) ==
    ArgTopKRows(MergeCandidates(kept_val, inner), K)

\* one pass of the bin loop (line 212)
MergeBin(w) ==
    /\ w \in Workers
    /\ pc[w] = "StepFour"
    /\ LET ds == data_source[w]
           b == w - 1
           bin_list_dim1 == ds.batch_ends_local_dim1[w]
       IN  /\ bin_idx[w] < Len(bin_list_dim1)
           /\ LET batch_idx_on_dim0 == bin_list_dim1[bin_idx[w] + 1]
                  col_idx == ColIdx(ds, batch_idx_on_dim0)
                  inner == CrossPatch(ds, b, col_idx)
              IN  /\ \E row_idx_pre \in
                            MergeOutcomes(row_val_to_keep[w], inner, cfg.neighbor_number) :
                         LET r == MergeResult(row_idx_to_keep[w], row_val_to_keep[w],
                                              inner, col_idx, row_idx_pre)
                         IN  /\ row_idx_to_keep' = [row_idx_to_keep EXCEPT ![w] = r.idx]
                             /\ row_val_to_keep' = [row_val_to_keep EXCEPT ![w] = r.val]
                  /\ scanned' = [scanned EXCEPT ![w] = @ \o batch_idx_on_dim0]
                  /\ prev_min' = [prev_min EXCEPT ![w] = RowMin(row_val_to_keep[w])]
                  /\ seen' = [seen EXCEPT ![w] =
                         [i \in 1..Len(@) |->
                             @[i] \o CandidatesOfBin(ds, b, i, batch_idx_on_dim0)]]
    /\ bin_idx' = [bin_idx EXCEPT ![w] = @ + 1]
    /\ processed_by' = [processed_by EXCEPT ![w - 1] = @ \cup {w}]
    /\ UNCHANGED <<cfgv, written_by, pc, data_source, commv, statv, handles, filev, asm>>

\* lines 317-319, after the last bin
CloseRow(w) ==
    /\ w \in Workers
    /\ pc[w] = "StepFour"
    /\ bin_idx[w] = Len(data_source[w].batch_ends_local_dim1[w])
    /\ handles' = [handles EXCEPT ![w] = {}]
    /\ pc' = [pc EXCEPT ![w] = "SavePatch"]
    /\ UNCHANGED <<cfgv, ownv, data_source, commv, statv, topkv, filev, asm>>

\* the patch named after the rank itself
PatchOfRank(w) == w

\* line 322: distance_batch_{comm_rank - 1}
PatchOf(w) == w - 1

\* line 323: h5py.File(name_to_save, 'w') creates or truncates the file
CreatePatch(w) ==
    /\ w \in Workers
    /\ pc[w] = "SavePatch"
    /\ patch' = [patch EXCEPT ![PatchOf(w)] = [NoPatch EXCEPT !.exists = TRUE]]
    /\ written_by' = [written_by EXCEPT ![PatchOf(w)] = @ \cup {w}]
    /\ pc' = [pc EXCEPT ![w] = "WritePatch"]
    /\ UNCHANGED <<cfgv, processed_by, data_source, commv, statv, topkv, handles, matrix,
                   stats_saved, asm>>

\* lines 324-325: the two datasets
WritePatch(w) ==
    /\ w \in Workers
    /\ pc[w] = "WritePatch"
    /\ patch' = [patch EXCEPT ![PatchOf(w)] =
           [exists |-> TRUE, written |-> TRUE,
            row_index |-> row_idx_to_keep[w], row_values |-> row_val_to_keep[w]]]
    /\ written_by' = [written_by EXCEPT ![PatchOf(w)] = @ \cup {w}]
    /\ pc' = [pc EXCEPT ![w] = "Barrier327"]
    /\ UNCHANGED <<cfgv, processed_by, data_source, commv, statv, topkv, handles, matrix,
                   stats_saved, asm>>

\* the barrier of line 327 released by the arrival of the aggregator alone
Barrier327RootOnly == pc[0] = "Barrier327"

\* the barrier of line 327 not waiting for the units that have failed
Barrier327Survivors ==
    /\ pc[0] = "Barrier327"
    /\ \A u \in Units : pc[u] \in {"Barrier327", "Failed"}

Barrier327Guard == \A u \in Units : pc[u] = "Barrier327"

Barrier327 ==
    /\ Barrier327Guard
    /\ pc' = [u \in Units |->
                 IF pc[u] # "Barrier327" THEN pc[u]
                 ELSE IF u = 0 THEN "StepFive" ELSE "Done"]
    /\ UNCHANGED <<cfgv, ownv, data_source, commv, statv, topkv, handles, filev, asm>>

\* ---------------------------------------------- Step Five (lines 332-365)
\* numpy broadcasts the stored array into the slice when each of its two
\* dimensions is the slice's or 1
Broadcastable(rows, n, K) ==
    /\ Len(rows) \in {n, 1}
    /\ \E width \in {K, 1} : \A i \in 1..Len(rows) : Len(rows[i]) = width

Broadcast(rows, n, K) ==
    [i \in 1..n |-> [k \in 1..K |->
        rows[IF Len(rows) = 1 THEN 1 ELSE i][IF Len(rows[1]) = 1 THEN 1 ELSE k]]]

\* a read that leaves the zeros of lines 335-337 in place of an unreadable patch
ReadPatchOrZeros(f, n, K) ==
    IF /\ f.exists /\ f.written
       /\ Broadcastable(f.row_index, n, K) /\ Broadcastable(f.row_values, n, K)
    THEN [ok |-> TRUE, row_index |-> Broadcast(f.row_index, n, K),
          row_values |-> Broadcast(f.row_values, n, K)]
    ELSE [ok |-> TRUE, row_index |-> Rep(Rep(0, K), n), row_values |-> Rep(Rep(0, K), n)]

\* lines 341-349: the file opens, holds both datasets, and each fits the slice
\* [_tmp_start:_tmp_end]; otherwise an exception ends the loop (ok = FALSE)
ReadPatch(f, n, K) ==
    IF /\ f.exists /\ f.written
       /\ Broadcastable(f.row_index, n, K) /\ Broadcastable(f.row_values, n, K)
    THEN [ok |-> TRUE, row_index |-> Broadcast(f.row_index, n, K),
          row_values |-> Broadcast(f.row_values, n, K)]
    ELSE [ok |-> FALSE, row_index |-> <<>>, row_values |-> <<>>]

\* one pass of the loop of line 340
AssembleRead ==
    /\ pc[0] = "StepFive"
    /\ asm.idx < cfg.batch_num_dim0
    /\ LET f == patch[asm.idx]
           ds == data_source[0]
           r == ReadPatch(f, BatchEnd(ds, asm.idx) - BatchStart(ds, asm.idx),
                          cfg.neighbor_number)
       IN  IF r.ok
           THEN /\ asm' = [asm EXCEPT !.idx = @ + 1,
                                      !.absent = @ \/ ~f.exists,
                                      !.idx_dim1 = @ \o r.row_index,
                                      !.values = @ \o r.row_values]
                /\ UNCHANGED <<pc, patch>>
           ELSE /\ pc' = [pc EXCEPT ![0] = "Failed"]
                /\ asm' = [asm EXCEPT !.absent = @ \/ ~f.exists]
                \* h5py.File without a mode: read-only in h5py 3, and in h5py 2
                \* append mode, which leaves a new empty file behind
                /\ \/ UNCHANGED patch
                   \/ /\ ~f.exists
                      /\ patch' = [patch EXCEPT ![asm.idx] = [NoPatch EXCEPT !.exists = TRUE]]
    /\ UNCHANGED <<cfgv, ownv, data_source, commv, statv, topkv, handles, matrix, stats_saved>>

\* lines 351-365: the coordinate matrix of all N * K entries, saved
SaveMatrix ==
    /\ pc[0] = "StepFive"
    /\ asm.idx = cfg.batch_num_dim0
    /\ matrix' = [saved |-> TRUE,
                  idx_dim0 |-> [g \in 1..Len(asm.idx_dim1) |->
                                   Rep(g - 1, cfg.neighbor_number)],
                  idx_dim1 |-> asm.idx_dim1,
                  values |-> asm.values]
    /\ pc' = [pc EXCEPT ![0] = "Done"]
    /\ UNCHANGED <<cfgv, ownv, data_source, commv, statv, topkv, handles, patch,
                   stats_saved, asm>>

\* ------------------------------------------------------- faults
\* an uncaught exception in a worker: the process leaves the job and takes
\* part in no later collective
Fail(w) ==
    /\ w \in Workers
    /\ pc[w] \notin {"Done", "Failed"}
    /\ pc' = [pc EXCEPT ![w] = "Failed"]
    /\ handles' = [handles EXCEPT ![w] = {}]
    /\ UNCHANGED <<cfgv, ownv, data_source, commv, statv, topkv, filev, asm>>

\* a patch file is gone from the output folder when the assembly gets to it
LosePatch(b) ==
    /\ b \in DOMAIN patch
    /\ patch[b].written
    /\ pc[0] = "StepFive"
    /\ asm.idx <= b
    /\ patch' = [patch EXCEPT ![b] = NoPatch]
    /\ UNCHANGED <<cfgv, ownv, pc, data_source, commv, statv, topkv, handles, matrix,
                   stats_saved, asm>>

Next ==
    \/ StepOne
    \/ \E u \in Units : bcast48(u)
    \/ Barrier52
    \/ \E w \in Workers : StepTwo(w)
    \/ \E u \in Units : gather172(u)
    \/ \E u \in Units : gather173(u)
    \/ Barrier174
    \/ StepThree
    \/ \E u \in Units : Bcast187(u)
    \/ \E u \in Units : Bcast188(u)
    \/ Barrier189
    \/ \E w \in Workers : MergeBin(w)
    \/ \E w \in Workers : CloseRow(w)
    \/ \E w \in Workers : CreatePatch(w)
    \/ \E w \in Workers : WritePatch(w)
    \/ Barrier327
    \/ AssembleRead
    \/ SaveMatrix
    \/ \E w \in Workers : Fail(w)
    \/ \E b \in DOMAIN patch : LosePatch(b)

Spec == Init /\ [][Next]_vars

\* ------------------------------------------------- runs without a fault
\* the script when no worker raises and no file disappears; every process
\* keeps running, so a step that stays possible is eventually taken
NextFair ==
    \/ StepOne
    \/ \E u \in Units : bcast48(u)
    \/ Barrier52
    \/ \E w \in Workers : StepTwo(w)
    \/ \E u \in Units : gather172(u)
    \/ \E u \in Units : gather173(u)
    \/ Barrier174
    \/ StepThree
    \/ \E u \in Units : Bcast187(u)
    \/ \E u \in Units : Bcast188(u)
    \/ Barrier189
    \/ \E w \in Workers : MergeBin(w)
    \/ \E w \in Workers : CloseRow(w)
    \/ \E w \in Workers : CreatePatch(w)
    \/ \E w \in Workers : WritePatch(w)
    \/ Barrier327
    \/ AssembleRead
    \/ SaveMatrix

SpecFair == Init /\ [][NextFair]_vars /\ WF_vars(NextFair)

\* --------------------------------------------- one worker on its own
\* The top-K rows of one worker, from the diagonal stage through its bins, for
\* any batch count and any split of the other batches into bins (the rows of a
\* worker depend on no other unit).

\* the splits of a list into consecutive non-empty groups
RECURSIVE Splits(_)
Splits(s) ==
    IF s = <<>>
    THEN {<<>>}
    ELSE UNION {{<<SubSeq(s, 1, k)>> \o rest : rest \in Splits(SubSeq(s, k + 1, Len(s)))} :
                   k \in 1..Len(s)}

\* the batches other than b, in ascending order
RECURSIVE OtherBatches(_, _, _)
OtherBatches(b, from, batch_num) ==
    IF from >= batch_num THEN <<>>
    ELSE (IF from = b THEN <<>> ELSE <<from>>) \o OtherBatches(b, from + 1, batch_num)

\* the pairs of samples with a sample of batch b among the two
OwnPairs(ds, b) ==
    {p \in SamplePairs(ds.data_num_total) :
        \E q \in {p[1], p[2]} : q >= BatchStart(ds, b) /\ q < BatchEnd(ds, b)}

InitMerge ==
    /\ call = NoCall
    /\ source = NoSource
    /\ \E w \in 1..MergeBatches, K \in 1..(MergeSamples - 1) :
       \E bins \in Splits(OtherBatches(w - 1, 0, MergeBatches)) :
          LET num_list == get_batch_num_list(MergeSamples, MergeBatches)
              ds == [set |-> TRUE,
                     data_num_total |-> MergeSamples,
                     batch_num_list_dim0 |-> num_list,
                     batch_global_idx_range_dim0 |-> GlobalIdxRange(num_list),
                     batch_ends_local_dim1 |->
                         [l \in 1..MergeBatches |-> IF l = w THEN bins ELSE <<>>]]
          IN  /\ K <= num_list[w]
              /\ UnitsStart([data_num_total |-> MergeSamples,
                             batch_num_dim0 |-> MergeBatches,
                             neighbor_number |-> K])
              /\ pc = [u \in 0..MergeBatches |-> IF u = w THEN "StepTwo" ELSE "NotRun"]
              /\ data_source = [u \in 0..MergeBatches |->
                                   IF u = w THEN ds ELSE NoDataSource]
              \* the correlations this worker reads: those of its own rows
              /\ \E m \in [OwnPairs(ds, w - 1) -> 0..MergeCorr] :
                     corr = [p \in SamplePairs(MergeSamples) |->
                                IF p \in DOMAIN m THEN m[p] ELSE 0]

\* Step Two of the worker, followed directly by its Step Four
WorkerSeed(w) == DiagonalStage(w, "StepFour")

NextMerge ==
    \/ \E w \in Workers : WorkerSeed(w)
    \/ \E w \in Workers : MergeBin(w)

SpecMerge == InitMerge /\ [][NextMerge]_vars

\* ------------------------------------------- get_batch_num_list on its own
InitBatchNum ==
    /\ call \in [total_num : 0..MaxTotal, batch_num : 1..MaxBatchNum,
                 returned : {FALSE}, result : {<<>>}]
    /\ corr = <<>>
    /\ source = NoSource
    /\ UnitsStart([data_num_total |-> 0, batch_num_dim0 |-> 0, neighbor_number |-> 0])
    /\ pc = [u \in {0} |-> "NotRun"]
    /\ data_source = [u \in {0} |-> NoDataSource]

CallBatchNum ==
    /\ ~call.returned
    /\ call' = [call EXCEPT !.returned = TRUE,
                            !.result = get_batch_num_list(call.total_num, call.batch_num)]
    /\ UNCHANGED <<ownv, cfg, corr, utilv, pc, data_source, commv, statv, topkv, handles, filev, asm>>

\* a call of get_batch_idx_per_list(batch_num): the table, or the exception of
\* a slice assignment (ok = FALSE)
CallBatchIdx ==
    /\ ~idx_table.returned
    /\ idx_table' = [returned |-> TRUE,
                     ok |-> get_batch_idx_per_list(call.batch_num).ok,
                     holder |-> get_batch_idx_per_list(call.batch_num).holder]
    /\ UNCHANGED <<ownv, call, cfg, corr, source, index_map, batch_ends_local, txt_file, h5files,
                   pc, data_source,
                   commv, statv, topkv, handles, filev, asm>>

NextBatchNum == CallBatchNum \/ CallBatchIdx

SpecBatchNum == InitBatchNum /\ [][NextBatchNum]_vars

\* C1: for total >= 0 and B >= 1 the list returned by get_batch_num_list has
\* length B, sums to total, and its largest and smallest elements differ by
\* at most 1.
C1_BatchNumList ==
    call.returned =>
        /\ Len(call.result) = call.batch_num
        /\ SumSeq(call.result) = call.total_num
        /\ MaxOf(Range(call.result)) - MinOf(Range(call.result)) <= 1

C1_Witness ==
    /\ call.returned
    /\ call.total_num % call.batch_num # 0
    /\ call.batch_num > 1
    /\ call.total_num > call.batch_num

\* ----------------------------------- the start of a job on any input list
\* the sequences of 1..n elements of S
SeqsUpTo(S, n) == UNION {[1..k -> S] : k \in 1..n}

\* what a path can hold: nothing h5py can open, or a file with datasets of one
\* sample each, of per-sample shape 0 or 1
FileStates ==
    {[readable |-> FALSE, datasets |-> <<>>]}
        \cup {[readable |-> TRUE, datasets |-> d] :
                 d \in SeqsUpTo([shape : 0..1, data_num : {1}], ParseDatasets)}

\* the samples of the listed files
ListedSamples(lines, files) ==
    SumSeq([n \in DOMAIN lines |-> Len(files[lines[n]].datasets)])

InitParse ==
    /\ call = NoCall
    /\ source = NoSource
    /\ \E lines \in SeqsUpTo(1..ParseFiles, ParseFiles), files \in [1..ParseFiles -> FileStates] :
           /\ txt_file = lines
           /\ h5files = files
           /\ RanksStart([data_num_total |-> ListedSamples(lines, files),
                          batch_num_dim0 |-> 1, neighbor_number |-> 1])
           /\ corr = [p \in SamplePairs(ListedSamples(lines, files)) |-> 0]
    /\ pc = [u \in 0..1 |-> IF u = 0 THEN "StepOne" ELSE "bcast48"]
    /\ data_source = [u \in 0..1 |-> NoDataSource]

\* Step One of the script, up to the barrier that lets the workers start
NextParse ==
    \/ StepOne
    \/ \E u \in Units : bcast48(u)
    \/ Barrier52

SpecParse == InitParse /\ [][NextParse]_vars

\* ------------------------------------------- the diagonal stage on its own
\* one worker at the start of Step Two, for every number of samples, every
\* batch of get_batch_num_list and every neighbor_number, whether or not the
\* batch has that many samples
InitSeed ==
    /\ call = NoCall
    /\ source = NoSource
    /\ \E N \in SeedBatches..SeedSamples, K \in 1..SeedK, w \in 1..SeedBatches :
          LET B == SeedBatches
              num_list == get_batch_num_list(N, B)
              ds == [set |-> TRUE,
                     data_num_total |-> N,
                     batch_num_list_dim0 |-> num_list,
                     batch_global_idx_range_dim0 |-> GlobalIdxRange(num_list),
                     batch_ends_local_dim1 |-> [l \in 1..B |-> <<>>]]
          IN  /\ num_list[w] >= 1
              /\ UnitsStart([data_num_total |-> N, batch_num_dim0 |-> B,
                             neighbor_number |-> K])
              /\ pc = [u \in 0..B |-> IF u = w THEN "StepTwo" ELSE "NotRun"]
              /\ data_source = [u \in 0..B |-> IF u = w THEN ds ELSE NoDataSource]
              /\ \E m \in [OwnPairs(ds, w - 1) -> 0..SeedCorr] :
                     corr = [p \in SamplePairs(N) |-> IF p \in DOMAIN m THEN m[p] ELSE 0]

NextSeed == \E w \in Workers : WorkerSeed(w)

SpecSeed == InitSeed /\ [][NextSeed]_vars

\* ------------------------------------------------- Step Five on its own
\* the aggregator at the start of Step Five; the workers have left
InitAssemble ==
    /\ call = NoCall
    /\ source = NoSource
    /\ \E N \in 1..AsmSamples, B \in 1..AsmBatches, K \in 1..AsmK :
          LET num_list == get_batch_num_list(N, B)
              ds == [set |-> TRUE,
                     data_num_total |-> N,
                     batch_num_list_dim0 |-> num_list,
                     batch_global_idx_range_dim0 |-> GlobalIdxRange(num_list),
                     batch_ends_local_dim1 |-> [l \in 1..B |-> <<>>]]
          IN  /\ B <= N
              /\ UnitsStart([data_num_total |-> N, batch_num_dim0 |-> B,
                             neighbor_number |-> K])
              /\ pc = [u \in 0..B |-> IF u = 0 THEN "StepFive" ELSE "Done"]
              /\ data_source = [u \in 0..B |-> IF u = 0 THEN ds ELSE NoDataSource]
              /\ corr = [p \in SamplePairs(N) |-> 0]

\* the shape of an array stored in a patch: rows and columns
ShapeOf(rows) == <<Len(rows), IF rows = <<>> THEN 0 ELSE Len(rows[1])>>

\* distance_batch_<b>.h5 as the assembly finds it: datasets row_index and
\* row_values of any shape, of the expected one or not
StorePatch(b) ==
    /\ b \in DOMAIN patch
    /\ pc[0] = "StepFive"
    /\ asm.idx <= b
    /\ ~patch[b].exists
    /\ \E r \in 1..(BatchNum(data_source[0], b) + 1), c \in 1..(cfg.neighbor_number + 1) :
           patch' = [patch EXCEPT ![b] = [exists |-> TRUE, written |-> TRUE,
                                          row_index |-> Rep(Rep(0, c), r),
                                          row_values |-> Rep(Rep(0, c), r)]]
    /\ UNCHANGED <<cfgv, ownv, pc, data_source, commv, statv, topkv, handles, matrix,
                   stats_saved, asm>>

NextAssemble ==
    \/ \E b \in DOMAIN patch : StorePatch(b)
    \/ AssembleRead
    \/ SaveMatrix

SpecAssemble == InitAssemble /\ [][NextAssemble]_vars

\* a listed file cannot be opened
ListedUnreadable == \E n \in DOMAIN txt_file : ~h5files[txt_file[n]].readable

\* the same path is listed twice
ListedTwice == \E n, m \in DOMAIN txt_file : n # m /\ txt_file[n] = txt_file[m]

\* a dataset of a listed file differs in shape from the first dataset of the
\* first file (all listed files readable)
ListedShapeMismatch ==
    /\ ~ListedUnreadable
    /\ \E n \in DOMAIN txt_file :
           \E k \in DOMAIN h5files[txt_file[n]].datasets :
               h5files[txt_file[n]].datasets[k].shape
                   # h5files[txt_file[1]].datasets[1].shape

\* C12: whenever a listed file cannot be opened, the same path is listed twice
\* or a dataset's per-sample shape differs from that of the first dataset of
\* the first file, parsing fails: the aggregator ends in Step One with no data
\* source, no batch is built and no worker gets past the bcast of line 48.
C12_BadListFailsFirst ==
    (ListedUnreadable \/ ListedTwice \/ ListedShapeMismatch) =>
        /\ pc[0] \in {"StepOne", "Failed"}
        /\ \A u \in Units : ~data_source[u].set
        /\ ~bc_data_source.set
        /\ \A w \in Workers : pc[w] = "bcast48"
        /\ \A w \in Workers : row_val_to_keep[w] = <<>> /\ handles[w] = {}

C12_Witness ==
    /\ pc[0] = "Failed"
    /\ txt_file = <<1, 2>>
    /\ ~ListedUnreadable /\ ~ListedTwice /\ ListedShapeMismatch
    /\ Len(h5files[1].datasets) = 1

\* ------------------------------- the partition functions on their own
\* the layouts of n samples in files and datasets: after every sample but the
\* last, the next one is in the same dataset (0), opens the next dataset of the
\* file (1) or opens the next file (2)
Layouts(n) == [1..(n - 1) -> 0..2]

\* data_num_per_dataset of a layout, from sample i on
RECURSIVE CountsOf(_, _, _)
CountsOf(layout, i, counts) ==
    IF i > Len(layout)
    THEN counts
    ELSE LET f == Len(counts)
             d == Len(counts[f])
         IN  CountsOf(layout, i + 1,
                 IF layout[i] = 0 THEN [counts EXCEPT ![f][d] = @ + 1]
                 ELSE IF layout[i] = 1 THEN [counts EXCEPT ![f] = Append(@, 1)]
                 ELSE Append(counts, <<1>>))

InitPartition ==
    /\ call = NoCall
    /\ corr = <<>>
    /\ \E n \in 1..PartTotal, b \in 1..PartBatch :
           \E layout \in Layouts(n) :
               source = [data_num_per_dataset |-> CountsOf(layout, 1, <<<<1>>>>),
                         batch_num |-> b]
    /\ UnitsStart([data_num_total |-> 0, batch_num_dim0 |-> 0, neighbor_number |-> 0])
    /\ pc = [u \in {0} |-> "NotRun"]
    /\ data_source = [u \in {0} |-> NoDataSource]

\* the arguments the data source derives from the counts of its datasets
DataNumPerFile == [f \in DOMAIN source.data_num_per_dataset |->
                      SumSeq(source.data_num_per_dataset[f])]
DatasetNumPerFile == [f \in DOMAIN source.data_num_per_dataset |->
                         Len(source.data_num_per_dataset[f])]
DataNumTotal == SumSeq(DataNumPerFile)
\* the names of the files and of their datasets: their positions in the input
FileList == [f \in DOMAIN source.data_num_per_dataset |-> f - 1]
SourceDict == [f \in DOMAIN source.data_num_per_dataset |->
                  [d \in DOMAIN source.data_num_per_dataset[f] |-> d - 1]]

CallIndexMap ==
    /\ ~index_map.returned
    /\ LET r == get_global_index_map(DataNumTotal, Len(source.data_num_per_dataset),
                                     DataNumPerFile, DatasetNumPerFile,
                                     source.data_num_per_dataset)
       IN  index_map' = [returned |-> TRUE, ok |-> r.ok, holder |-> r.holder]
    /\ UNCHANGED <<ownv, call, cfg, corr, idx_table, source, batch_ends_local, txt_file, h5files,
                   pc, data_source,
                   commv, statv, topkv, handles, filev, asm>>

\* get_batch_ends on the map, for the batches of get_batch_num_list
CallBatchEnds ==
    /\ index_map.returned /\ index_map.ok
    /\ ~batch_ends_local.returned
    /\ batch_ends_local' =
           [returned |-> TRUE,
            val |-> get_batch_ends(index_map.holder,
                                   GlobalIdxRange(get_batch_num_list(DataNumTotal,
                                                                     source.batch_num)),
                                   FileList, SourceDict)]
    /\ UNCHANGED <<ownv, call, cfg, corr, idx_table, source, index_map, txt_file, h5files,
                   pc, data_source,
                   commv, statv, topkv, handles, filev, asm>>

NextPartition == CallIndexMap \/ CallBatchEnds

SpecPartition == InitPartition /\ [][NextPartition]_vars

\* the (file, dataset, local) triple of global index g (0-based)
TripleOf(g) == <<index_map.holder[1][g + 1], index_map.holder[2][g + 1],
                 index_map.holder[3][g + 1]>>

LexLess(a, b) ==
    \/ a[1] < b[1]
    \/ a[1] = b[1] /\ a[2] < b[2]
    \/ a[1] = b[1] /\ a[2] = b[2] /\ a[3] < b[3]

\* the global index of the first sample of dataset d of file f (1-based f, d)
FirstOf(f, d) ==
    SumSeq(SubSeq(DataNumPerFile, 1, f - 1))
        + SumSeq(SubSeq(source.data_num_per_dataset[f], 1, d - 1))

\* C11: given counts that sum to N, get_global_index_map maps every global
\* index to a (file, dataset, local) triple; the triples increase strictly in
\* lexicographic order, the samples of each (file, dataset) occupy one
\* contiguous global range, and their local offsets are 0, 1, ..., count-1.
C11_IndexMap ==
    index_map.returned =>
        /\ index_map.ok
        /\ \A r \in 1..3 : Len(index_map.holder[r]) = DataNumTotal
        /\ \A g \in 0..(DataNumTotal - 2) : LexLess(TripleOf(g), TripleOf(g + 1))
        /\ \A f \in DOMAIN source.data_num_per_dataset :
               \A d \in DOMAIN source.data_num_per_dataset[f] :
                   /\ {g \in 0..(DataNumTotal - 1) :
                          TripleOf(g)[1] = f - 1 /\ TripleOf(g)[2] = d - 1}
                        = {FirstOf(f, d) + k :
                              k \in 0..(source.data_num_per_dataset[f][d] - 1)}
                   /\ \A k \in 0..(source.data_num_per_dataset[f][d] - 1) :
                          TripleOf(FirstOf(f, d) + k)[3] = k

C11_Witness ==
    /\ index_map.returned
    /\ source.data_num_per_dataset = <<<<2, 1>>, <<2>>>>
    /\ index_map.holder = <<<<0, 0, 0, 1, 1>>, <<0, 0, 1, 0, 0>>, <<0, 1, 0, 0, 1>>>>

\* the batches given to get_batch_ends
PartRanges == GlobalIdxRange(get_batch_num_list(DataNumTotal, source.batch_num))

\* the (file, dataset) of every read of a batch's entry, in order
ReadKeys(entry) ==
    Concat([k \in DOMAIN entry.files |->
               [n \in DOMAIN entry.entries[k].Datasets |->
                   <<entry.files[k], entry.entries[k].Datasets[n]>>]])

\* the samples the reads of a batch's entry deliver, in order
ReadSamples(entry) ==
    Concat([k \in DOMAIN entry.files |->
               Concat([n \in DOMAIN entry.entries[k].Datasets |->
                          LET ends == entry.entries[k].Ends[n]
                          IN  [i \in 1..(ends[2] - ends[1]) |->
                                  <<entry.files[k], entry.entries[k].Datasets[n],
                                    ends[1] + i - 1>>]])])

\* C14: for every batch with a non-empty global range [s, e), get_batch_ends
\* yields exactly one contiguous read [start, end) for each (file, dataset)
\* holding a sample of the range, files and datasets in input order; the reads
\* concatenated in order give exactly the samples s, s+1, ..., e-1, so the
\* number of reads is the number of datasets touched, not of samples.
C14_BatchReads ==
    batch_ends_local.returned =>
        \A b \in DOMAIN PartRanges :
            LET start == PartRanges[b][1]
                end == PartRanges[b][2]
                entry == batch_ends_local.val[b]
                keys == ReadKeys(entry)
            IN  start < end =>
                    /\ ReadSamples(entry) = [i \in 1..(end - start) |-> TripleOf(start + i - 1)]
                    /\ \A r \in 1..(Len(keys) - 1) :
                           LexLess(<<keys[r][1], keys[r][2], 0>>,
                                   <<keys[r + 1][1], keys[r + 1][2], 0>>)
                    /\ Range(keys) = {<<TripleOf(g)[1], TripleOf(g)[2]>> : g \in start..(end - 1)}
                    /\ Len(keys) = Cardinality(Range(keys))
                    /\ Len(entry.files) = Len(entry.entries)
                    /\ \A k \in DOMAIN entry.entries :
                           /\ Len(entry.entries[k].Datasets) = Len(entry.entries[k].Ends)
                           /\ \A n \in DOMAIN entry.entries[k].Ends :
                                  entry.entries[k].Ends[n][1] < entry.entries[k].Ends[n][2]

C14_Witness ==
    /\ batch_ends_local.returned
    /\ source = [data_num_per_dataset |-> <<<<4>>, <<1>>>>, batch_num |-> 2]
    /\ batch_ends_local.val[2] =
           [files |-> <<0, 1>>,
            entries |-> <<[Datasets |-> <<0>>, Ends |-> << <<3, 4>> >>],
                          [Datasets |-> <<0>>, Ends |-> << <<0, 1>> >>]>>]

\* C13: for every batch count B >= 2, get_batch_idx_per_list(B) returns a table
\* of B rows of B-1 entries whose row l lists the batch indices 0..B-1 without
\* l, each once, in ascending order (first, last and every middle row).
C13_BatchIdxTable ==
    (idx_table.returned /\ call.batch_num >= 2) =>
        /\ idx_table.ok
        /\ Len(idx_table.holder) = call.batch_num
        /\ \A l \in 0..(call.batch_num - 1) :
               idx_table.holder[l + 1] = OtherBatches(l, 0, call.batch_num)

\* ------------------------------------------------ reference definitions
Batches == 0..(cfg.batch_num_dim0 - 1)

\* the samples other than i, in ascending order
RECURSIVE OtherSamples(_, _, _)
OtherSamples(i, from, total) ==
    IF from >= total THEN <<>>
    ELSE (IF from = i THEN <<>> ELSE <<from>>) \o OtherSamples(i, from + 1, total)

\* the K largest correlations of sample i with all other samples, largest
\* first, by one sort over all of them
RefTopKValues(i, K) ==
    LET others == OtherSamples(i, 0, cfg.data_num_total)
        vals == [c \in 1..Len(others) |-> Corr(i, others[c])]
        sel == CHOOSE x \in ArgTopK(vals, K) : TRUE
    IN  [k \in 1..Len(sel) |-> vals[sel[k]]]

\* the results one argsort over a list of (index, value) candidates can give
OnePass(cands, K) ==
    LET vals == [c \in 1..Len(cands) |-> cands[c][2]]
    IN  {[k \in 1..Len(sel) |-> cands[sel[k]]] : sel \in ArgTopK(vals, K)}

PipelineComplete == pc[0] = "Done" /\ matrix.saved

OffDiagonalDone(w) == pc[w] \in {"SavePatch", "WritePatch", "Barrier327", "Done"}

\* C2: when the pipeline completes with K <= N-1, the K entries of every
\* sample's final row are its K highest correlations with all N-1 other
\* samples, as a one-sort all-pairs reference gives them.
C2_ExactTopK ==
    PipelineComplete =>
        \A g \in 1..cfg.data_num_total :
            /\ matrix.values[g] = RefTopKValues(g - 1, cfg.neighbor_number)
            /\ \A k \in 1..cfg.neighbor_number :
                   /\ matrix.idx_dim1[g][k] # g - 1
                   /\ matrix.values[g][k] = Corr(g - 1, matrix.idx_dim1[g][k])

\* C3: every row persisted in a patch has exactly K pairwise distinct neighbor
\* indices, none of them the row's own global index, and its values are in
\* descending order.
C3_RowsWellFormed ==
    \A b \in DOMAIN patch :
        patch[b].written =>
            \A i \in 1..Len(patch[b].row_index) :
                LET idx == patch[b].row_index[i]
                    val == patch[b].row_values[i]
                IN  /\ Len(idx) = cfg.neighbor_number
                    /\ IsInjective(idx)
                    /\ \A k \in 1..Len(idx) :
                           idx[k] # BatchStart(data_source[b + 1], b) + i - 1
                    /\ \A k \in 1..(Len(val) - 1) : val[k] >= val[k + 1]

C5_MergeMonotone ==
    \A w \in Workers :
        bin_idx[w] >= 1 =>
            \A i \in 1..Len(row_val_to_keep[w]) :
                \A k \in 1..Len(row_val_to_keep[w][i]) :
                    row_val_to_keep[w][i][k] >= prev_min[w][i]

C5_Witness ==
    \E w \in Workers :
        /\ bin_idx[w] = 2
        /\ \E i \in 1..Len(row_val_to_keep[w]) :
              /\ prev_min[w][i] > Sentinel
              /\ \A k \in 1..Len(row_val_to_keep[w][i]) :
                     row_val_to_keep[w][i][k] > prev_min[w][i]

\* the unmasked candidates of row i (1-based, local) of the diagonal patch of
\* worker w: the in-batch columns j > i with their correlations
DiagonalCandidates(w, i) ==
    LET ds == data_source[w]
        b == w - 1
    IN  {<<BatchStart(ds, b) + j - 1,
           Corr(BatchStart(ds, b) + i - 1, BatchStart(ds, b) + j - 1)>> :
            j \in (i + 1)..BatchNum(ds, b)}

\* C15: among candidates of equal correlation the selection keeps the one with
\* the smaller index, in the diagonal seed and in every merge: no row keeps a
\* neighbor while a candidate it has met with the same correlation and a
\* smaller global index is left out, so that a kept neighbor is only ever
\* displaced by a strictly larger correlation.
C15_TiesToSmallerIndex ==
    \A w \in Workers :
        pc[w] = "StepFour" =>
            \A i \in 1..Len(row_idx_to_keep[w]) :
                LET kept == Range(PairRows(row_idx_to_keep[w], row_val_to_keep[w])[i])
                    met == DiagonalCandidates(w, i) \cup Range(seen[w][i])
                IN  \A p \in kept, c \in met :
                        (p[2] > Sentinel /\ c[2] = p[2] /\ c \notin kept) => p[1] < c[1]

\* C16: the file handles a worker opens in one stage are closed before it
\* enters the next: at the barriers after the diagonal stage and in the
\* off-diagonal stage the worker holds no handle of the diagonal stage (the
\* handles of a bin are opened and closed within the pass of that bin).
C16_HandlesClosedPerStage ==
    \A w \in Workers :
        pc[w] \in {"Barrier174", "Barrier189", "StepFour"} => handles[w] = {}

RECURSIVE LargestFirst(_, _)
LargestFirst(vals, K) ==
    IF vals = <<>> \/ K = 0 THEN <<>>
    ELSE LET m == MaxOf(Range(vals))
             p == CHOOSE q \in 1..Len(vals) : vals[q] = m
         IN  <<m>> \o LargestFirst([k \in 1..(Len(vals) - 1) |->
                                       IF k < p THEN vals[k] ELSE vals[k + 1]], K - 1)

\* C18: for every batch size n >= 1 and every K >= 1, n <= K included, the
\* diagonal stage seeds each row i with exactly K (global index, value)
\* entries: first the largest correlations among the in-batch columns j > i,
\* each with global index = local column + batch start, then sentinel
\* padding; no entry with a value above the sentinel refers to i or to j < i.
C18_SeedHasKEntries ==
    \A w \in Workers :
        pc[w] = "StepFour" =>
            LET ds == data_source[w]
                n == BatchNum(ds, w - 1)
                K == cfg.neighbor_number
            IN  /\ Len(row_idx_to_keep[w]) = n
                /\ \A i \in 1..n :
                       LET idx == row_idx_to_keep[w][i]
                           val == row_val_to_keep[w][i]
                           valid == IF n - i < K THEN n - i ELSE K
                           above == [j \in 1..(n - i) |->
                                        Corr(BatchStart(ds, w - 1) + i - 1,
                                             BatchStart(ds, w - 1) + i + j - 1)]
                       IN  /\ Len(idx) = K /\ Len(val) = K
                           /\ \A k \in 1..K :
                                  IF k <= valid
                                  THEN /\ val[k] = LargestFirst(above, K)[k]
                                       /\ idx[k] > BatchStart(ds, w - 1) + i - 1
                                       /\ idx[k] < BatchEnd(ds, w - 1)
                                       /\ val[k] = Corr(BatchStart(ds, w - 1) + i - 1, idx[k])
                                  ELSE val[k] = Sentinel

\* C19: when an array stored in a patch does not have the shape (batch size,
\* K), whatever shape it has instead, the assembly fails and no output matrix
\* is written: a saved matrix means every patch held arrays of exactly the
\* expected shape.
C19_MismatchFailsAssembly ==
    matrix.saved =>
        \A b \in Batches :
            /\ ShapeOf(patch[b].row_index) =
                   <<BatchNum(data_source[0], b), cfg.neighbor_number>>
            /\ ShapeOf(patch[b].row_values) =
                   <<BatchNum(data_source[0], b), cfg.neighbor_number>>

\* the collectives of the script in program order (lines 48, 52, 172, 173,
\* 174, 187, 188, 189, 327), named by the position of a unit that is in them
Collectives ==
    <<"bcast48", "Barrier52", "gather172", "gather173", "Barrier174",
      "Bcast187", "Bcast188", "Barrier189", "Barrier327">>

\* the number of collectives a unit at position p has returned from
Completed(p) ==
    CASE p \in {"StepOne", "bcast48"} -> 0
      [] p = "Barrier52" -> 1
      [] p \in {"StepTwo", "gather172"} -> 2
      [] p = "gather173" -> 3
      [] p = "Barrier174" -> 4
      [] p \in {"StepThree", "Bcast187"} -> 5
      [] p = "Bcast188" -> 6
      [] p = "Barrier189" -> 7
      [] p \in {"StepFour", "SavePatch", "WritePatch", "Barrier327"} -> 8
      [] p \in {"StepFive", "Done"} -> 9

\* a step of unit u returns from a collective exactly when u was in it, and
\* then from the next one of the program order
InCollectiveOrder(u) ==
    (pc'[u] # pc[u] /\ pc'[u] # "Failed") =>
        IF \E k \in DOMAIN Collectives : Collectives[k] = pc[u]
        THEN /\ Collectives[Completed(pc[u]) + 1] = pc[u]
             /\ Completed(pc'[u]) = Completed(pc[u]) + 1
        ELSE Completed(pc'[u]) = Completed(pc[u])

C6_ExactlyOneScans ==
    (\A w \in Workers : OffDiagonalDone(w)) =>
        \A a, b \in Batches :
            a < b => ~((b \in Range(scanned[a + 1])) <=> (a \in Range(scanned[b + 1])))

\* the two length-N arrays as the broadcast of Step Three delivers them
StatsAll == [g \in 1..cfg.data_num_total |-> StatOf(g - 1)]

\* C7: no worker is in its off-diagonal stage before the aggregator has
\* gathered the mean and std vectors of every worker and both broadcasts of
\* the length-N arrays have completed at every unit.
C7_StatsBeforeOffDiagonal ==
    \A w \in Workers :
        (pc[w] = "StepFour" \/ OffDiagonalDone(w)) =>
            /\ Gathered(g_std) /\ Gathered(g_mean)
            /\ pc[0] \notin {"StepOne", "bcast48", "Barrier52", "gather172", "gather173",
                             "Barrier174", "StepThree", "Bcast187", "Bcast188"}
            /\ \A u \in Units : std_all[u] = StatsAll /\ mean_all[u] = StatsAll

C7_Witness ==
    \E w \in Workers :
        /\ pc[w] = "StepFour"
        /\ bin_idx[w] = 1
        /\ \A u \in Units : std_all[u] = StatsAll /\ mean_all[u] = StatsAll

\* C8: the aggregator is in assembly (it has opened or is about to open a
\* patch) only when every worker has finished writing its patch.
C8_AssemblyAfterWrites ==
    (pc[0] \in {"StepFive", "Done"} \/ asm.idx > 0 \/ asm.absent) =>
        \A w \in Workers : pc[w] = "Done"

C8_Witness ==
    /\ pc[0] = "StepFive"
    /\ asm.idx = 1
    /\ cfg.batch_num_dim0 = 2
    /\ \A b \in Batches : patch[b].written

\* C9: once assembly has found one of the expected patch files absent, the
\* aggregator has failed and correlation_matrix is not written.
C9_AbsentPatchFails ==
    asm.absent => pc[0] = "Failed" /\ ~matrix.saved

C9_Witness ==
    /\ asm.absent
    /\ asm.idx = 1
    /\ pc[0] = "Failed"

====
